---- MODULE Spec2Model ----
(***************************************************************************)
(* A model of the low-latency infrastructure components: the SPSC ring     *)
(* buffer Common::LFQueue (src/lf_queue.h), the asynchronous               *)
(* Common::Logger built on it (src/unnamed/part_004) and the fixed         *)
(* capacity Common::MemPool (src/unnamed/part_001).                        *)
(*                                                                         *)
(* Characters are modelled by their character codes, text by sequences of  *)
(* character codes.                                                        *)
(***************************************************************************)
EXTENDS Integers, Sequences, FiniteSets, TLC

(***************************************************************************)
(* Bounds of the model.                                                    *)
(***************************************************************************)
\* capacity of the ring buffer under check (LOG_QUEUE_SIZE in the program)
QueueCap == 2
\* total number of pushValue calls the producer makes
MaxPush == 3
\* largest capacity a memory pool is constructed with
MaxPoolSize == 4
\* total number of allocate calls made on a pool
MaxAllocs == 6
\* longest generated format string
MaxFmtLen == 4
\* largest number of arguments of a log call
MaxArgs == 2
\* capacity of a socket's outbound and inbound buffers under check
\* (64 * 1024 * 1024 in the program)
McastBufferSize == 3
\* largest len of one send(data, len) call
MaxSendLen == 2
\* largest count the ring buffer reaches under direct calls
MaxCount == 3
\* largest number of connections the reactor accepts
MaxSockets == 2
\* largest number of events one kevent call returns
MaxEvents == 2
\* largest number of registrations made from outside the reactor
MaxExternal == 1
\* entries of the reactor's event array in the model (1024 in the program)
EventArraySize == 2
\* largest descriptor socket() returns
MaxFd == 1

(***************************************************************************)
(* LogElement: the tag and the union's payload (one integer stands for the *)
(* union; a CHAR holds a character code).                                  *)
(***************************************************************************)
LogTypes == {"CHAR", "INTEGER"}

\* LogElement{} as LFQueue's constructor fills the store with: T()
DefaultElement == [type |-> "CHAR", v |-> 0]

\* the elements the producer pushes in the ring-buffer specification
PushedElements ==
    { [type |-> "CHAR", v |-> 97],
      [type |-> "INTEGER", v |-> -12] }

\* the characters of a non-negative integer, most significant digit first
RECURSIVE Digits(_)
Digits(n) ==
    IF n < 10 THEN << 48 + n >>
    ELSE Append(Digits(n \div 10), 48 + (n % 10))

\* operator<< of the stream for a signed integer
IntText(n) == IF n < 0 THEN << 45 >> \o Digits(0 - n) ELSE Digits(n)

\* the switch of flushQueue: what `file_ << next->u_.x` appends for an element
ElementText(e) ==
    IF e.type = "CHAR" THEN << e.v % 256 >> ELSE IntText(e.v)

\* the text of a sequence of elements, in order
RECURSIVE TextOf(_)
TextOf(es) ==
    IF es = << >> THEN << >> ELSE ElementText(Head(es)) \o TextOf(Tail(es))

IsPrefix(s, t) == Len(s) <= Len(t) /\ SubSeq(t, 1, Len(s)) = s

VARIABLES
    \* ---- LFQueue<LogElement>
    store_,             \* vector<T> store_
    next_write_index_,  \* atomic<size_t>
    next_read_index_,   \* atomic<size_t>
    num_elements_,      \* atomic<size_t>
    \* ---- Logger
    running_,           \* atomic<bool> running_
    file_,              \* everything written to the ofstream so far
    flushed,            \* how many characters of file_ are in the file on disk
    fileOpen,           \* file_.is_open()
    ppc,                \* producer: position in pushValue (0: not in a call)
    pval,               \* producer: the log_element argument
    pushes,             \* producer: number of pushValue calls made
    fpc,                \* flush task: position in flushQueue
    next,               \* flush task: the pointer `next` (a slot index, -1 for nullptr)
    rtype,              \* flush task: next->type_ as read by the switch
    dpc,                \* destructor: position in ~Logger
    exited,             \* the process called exit(EXIT_FAILURE)
    \* ---- history of the ring buffer
    written,            \* elements whose slot write completed, in order
    readSeq,            \* elements as the consumer read them, in order
    overrun,            \* a push began while size() was the capacity
    latePush,           \* a push was in progress when destruction began, or later
    \* ---- MemPool
    poolN,              \* store_.size()
    is_free_,           \* store_[i].is_free_
    next_free_index_,   \* size_t next_free_index_
    live,               \* number of live handles per slot
    poolExited,         \* the process called exit(EXIT_FAILURE)
    poolLast,           \* the last pool call, its outcome, is_free_ before it
    roundRobin,         \* calls so far: allocate, deallocate of that object, ...
    returned,           \* slots allocate returned, in order
    \* ---- Logger::log(format, args...)
    log_format,         \* the format string of the call
    log_call_args,      \* the arguments of the call
    log_args,           \* value, args...: the arguments not yet consumed
    log_s,              \* the pointer s, as a position in the format (from 1)
    log_pushed,         \* the elements handed to pushValue(const LogElement&)
    log_state,          \* which overload runs, or how the call ended
    \* ---- McastSocket
    outbound_data_,         \* vector<char> outbound_data_
    next_send_valid_index_, \* size_t
    next_rcv_valid_index_,  \* size_t
    sock_appended,          \* bytes given to send() since the last sendAndRecv()
    sockExited,             \* the process called exit(EXIT_FAILURE)
    sockLast,               \* the last socket call, its inputs and its outcome
    \* ---- TCPServer
    kqueue_fd_,             \* -1 until listen() created the event queue
    kq,                     \* the kernel's registrations: (socket, filter)
    receive_sockets_,       \* vector<TCPSocket *>
    send_sockets_,          \* vector<TCPSocket *>
    nsock,                  \* sockets created by the accept loop: 1 .. nsock
    pending,                \* connections waiting on the listener
    srvExited,              \* the process called exit(EXIT_FAILURE)
    pollpc,                 \* position inside poll(): idle, scan, accept
    poll_n,                 \* n, what kevent returned to poll()
    poll_i,                 \* i of the scan loop
    poll_seen,              \* registrations already scanned in this poll()
    have_new_connection,    \* local of poll()
    srv_op,                 \* the last reactor call that returned
    poll_accepted,          \* sockets created by the current or last poll()
    poll_first,             \* nsock when the current or last poll() began
    poll_pending,           \* pending when the current or last poll() began
    poll_errors,            \* sockets other than the listener whose events
                            \* carried EV_ERROR in the current or last poll()
    added_again,            \* the scan met a socket that was already a member
    tick_trace,             \* calls and callbacks of the last sendAndRecv()
    external,               \* a registration was made from outside the reactor
    \* ---- LFQueue under direct calls
    qLast,                  \* the last queue call, the state it met, its outcome
    \* ---- createSocket(logger, socket_cfg)
    socket_cfg,             \* is_udp_, is_listening_, needs_so_timestamp_
    setup_pc,               \* position inside createSocket
    socket_fd,              \* int socket_fd = -1
    setup_calls,            \* the system calls made so far and their outcomes
    setupExited             \* the process called exit(EXIT_FAILURE)

qvars == << store_, next_write_index_, next_read_index_, num_elements_ >>
lvars == << running_, file_, flushed, fileOpen, ppc, pval, pushes, fpc, next,
            rtype, dpc, exited >>
hvars == << written, readSeq, overrun, latePush >>
pvars == << poolN, is_free_, next_free_index_, live, poolExited, poolLast,
            roundRobin, returned >>
fvars == << log_format, log_call_args, log_args, log_s, log_pushed, log_state >>
svars == << outbound_data_, next_send_valid_index_, next_rcv_valid_index_,
            sock_appended, sockExited, sockLast >>
rvars == << kqueue_fd_, kq, receive_sockets_, send_sockets_, nsock, pending,
            srvExited, pollpc, poll_n, poll_i, poll_seen, have_new_connection,
            srv_op, poll_accepted, poll_first, poll_pending, poll_errors,
            added_again, tick_trace, external >>
cvars == << socket_cfg, setup_pc, socket_fd, setup_calls, setupExited >>
vars == << qvars, lvars, hvars, pvars, fvars, svars, rvars, qLast, cvars >>

\* what the actions of one component leave alone
notLogger == << pvars, fvars, svars, rvars, qLast, cvars >>
notPool == << qvars, lvars, hvars, fvars, svars, rvars, qLast, cvars >>
notFormat == << qvars, lvars, hvars, pvars, svars, rvars, qLast, cvars >>
notSocket == << qvars, lvars, hvars, pvars, fvars, rvars, qLast, cvars >>
notServer == << qvars, lvars, hvars, pvars, fvars, svars, qLast, cvars >>
notQueue == << pvars, fvars, svars, rvars, cvars >>
notSetup == << qvars, lvars, hvars, pvars, fvars, svars, rvars, qLast >>

Slots == 0 .. (QueueCap - 1)

(***************************************************************************)
(* Construction.                                                           *)
(***************************************************************************)
\* LFQueue(num_elems): store_(num_elems, T()), indices and count 0
QueueInit ==
    /\ store_ = [i \in Slots |-> DefaultElement]
    /\ next_write_index_ = 0
    /\ next_read_index_ = 0
    /\ num_elements_ = 0

\* Logger(file_name): file opened (truncated), flush task created, running_ true
LoggerInit ==
    /\ running_ = TRUE
    /\ file_ = << >>
    /\ flushed = 0
    /\ fileOpen = TRUE
    /\ ppc = 0
    /\ pval = DefaultElement
    /\ pushes = 0
    /\ fpc = "while"
    /\ next = -1
    /\ rtype = "CHAR"
    /\ dpc = "alive"
    /\ exited = FALSE
    /\ written = << >>
    /\ readSeq = << >>
    /\ overrun = FALSE
    /\ latePush = FALSE

\* MemPool(num_elems): every block {T(), true}, next_free_index_ 0
PoolInitN(n) ==
    /\ poolN = n
    /\ is_free_ = [i \in 0 .. (n - 1) |-> TRUE]
    /\ next_free_index_ = 0
    /\ live = [i \in 0 .. (n - 1) |-> 0]
    /\ poolExited = FALSE
    /\ poolLast = [op |-> "none", idx |-> 0, aborted |-> FALSE,
                   before |-> [i \in 0 .. (n - 1) |-> TRUE]]
    /\ roundRobin = TRUE
    /\ returned = << >>

\* no log(format, args...) call is under way
FormatIdle ==
    /\ log_format = << >>
    /\ log_call_args = << >>
    /\ log_args = << >>
    /\ log_s = 1
    /\ log_pushed = << >>
    /\ log_state = "none"

\* a socket call's record: the call, its inputs and what it did
SocketCall(op) ==
    [op |-> op, before |-> 0, len |-> 0, aborted |-> FALSE, outside |-> FALSE,
     rcvBefore |-> 0, n_rcv |-> 0, rcvAdvanced |-> 0, callbacks |-> 0,
     attempted |-> FALSE, n |-> 0, appended |-> << >>, delivered |-> << >>,
     result |-> FALSE]

\* McastSocket(logger): both buffers resized to McastBufferSize, indices 0
SocketInit ==
    /\ outbound_data_ = [i \in 0 .. (McastBufferSize - 1) |-> 0]
    /\ next_send_valid_index_ = 0
    /\ next_rcv_valid_index_ = 0
    /\ sock_appended = << >>
    /\ sockExited = FALSE
    /\ sockLast = SocketCall("none")

\* a queue call's record: the call, the queue it met and what it did
QueueCall(op) ==
    [op |-> op, count |-> num_elements_, readIndex |-> next_read_index_,
     writeIndex |-> next_write_index_, store |-> store_, result |-> -1,
     aborted |-> FALSE]

\* no queue call made yet
DirectInit ==
    qLast = [op |-> "none", count |-> 0, readIndex |-> 0, writeIndex |-> 0,
             store |-> [i \in 0 .. (QueueCap - 1) |-> DefaultElement],
             result |-> -1, aborted |-> FALSE]

\* createSocket has not been called
SetupIdle ==
    /\ socket_cfg = [is_udp_ |-> FALSE, is_listening_ |-> FALSE,
                     needs_so_timestamp_ |-> FALSE]
    /\ setup_pc = "idle"
    /\ socket_fd = -1
    /\ setup_calls = << >>
    /\ setupExited = FALSE

\* TCPServer(logger): no event queue, no registrations, both vectors empty
ServerInit ==
    /\ kqueue_fd_ = -1
    /\ kq = {}
    /\ receive_sockets_ = << >>
    /\ send_sockets_ = << >>
    /\ nsock = 0
    /\ pending = 0
    /\ srvExited = FALSE
    /\ pollpc = "idle"
    /\ poll_n = 0
    /\ poll_i = 0
    /\ poll_seen = {}
    /\ have_new_connection = FALSE
    /\ srv_op = "none"
    /\ poll_accepted = {}
    /\ poll_first = 0
    /\ poll_pending = 0
    /\ poll_errors = {}
    /\ added_again = FALSE
    /\ tick_trace = << >>
    /\ external = FALSE

(***************************************************************************)
(* LFQueue operations.                                                     *)
(***************************************************************************)
WriteIndexStuck(w) == w % QueueCap

WriteIndexNoWrap(w) == w + 1

\* updateWriteIndex, first statement: the index after the advance
WriteIndexAfter(w) == (w + 1) % QueueCap

CountTwiceAfterWrite(c) == c + 2

\* updateWriteIndex, second statement: num_elements_++
CountAfterWrite(c) == c + 1

ReadIndexStuck(r) == r % QueueCap

\* updateReadIndex, first statement: the index after the advance
ReadIndexAfter(r) == (r + 1) % QueueCap

getNextToReadUnchecked == next_read_index_

\* getNextToRead: nullptr (-1) when size() is 0, else the slot at next_read_index_
getNextToRead == IF num_elements_ # 0 THEN next_read_index_ ELSE -1

(***************************************************************************)
(* Logger::pushValue(const LogElement&): the producer.  The statements in  *)
(* program order: the slot copy (tag, then payload), then updateWriteIndex *)
(* (index advance, then count increment).                                  *)
(***************************************************************************)
publishBeforeWrite == << "idx", "cnt", "type", "val" >>

pushValueOrder == << "type", "val", "idx", "cnt" >>

ProducerOp == IF ppc = 0 THEN "none" ELSE pushValueOrder[ppc]
ProducerPcAfter == IF ppc = Len(pushValueOrder) THEN 0 ELSE ppc + 1
ProducerHistory == latePush' = (latePush \/ dpc # "alive")

\* the call: pushValue(e)
PushBegin(e) ==
    /\ ~exited /\ dpc # "done"
    /\ ppc = 0
    /\ pushes < MaxPush
    /\ ppc' = 1
    /\ pval' = e
    /\ pushes' = pushes + 1
    /\ overrun' = (overrun \/ num_elements_ >= QueueCap)
    /\ ProducerHistory
    /\ UNCHANGED << qvars, running_, file_, flushed, fileOpen, fpc, next, rtype,
                    dpc, exited, written, readSeq, notLogger >>

\* *(queue_.getNextToWrite()) = log_element; the tag
PushWriteType ==
    /\ ~exited /\ dpc # "done"
    /\ ProducerOp = "type"
    /\ store_' = [store_ EXCEPT ![next_write_index_].type = pval.type]
    /\ ppc' = ProducerPcAfter
    /\ ProducerHistory
    /\ UNCHANGED << next_write_index_, next_read_index_, num_elements_,
                    running_, file_, flushed, fileOpen, pval, pushes, fpc, next,
                    rtype, dpc, exited, written, readSeq, overrun, notLogger >>

\* *(queue_.getNextToWrite()) = log_element; the payload
PushWriteValue ==
    /\ ~exited /\ dpc # "done"
    /\ ProducerOp = "val"
    /\ store_' = [store_ EXCEPT ![next_write_index_].v = pval.v]
    /\ written' = Append(written, pval)
    /\ ppc' = ProducerPcAfter
    /\ ProducerHistory
    /\ UNCHANGED << next_write_index_, next_read_index_, num_elements_,
                    running_, file_, flushed, fileOpen, pval, pushes, fpc, next,
                    rtype, dpc, exited, readSeq, overrun, notLogger >>

\* updateWriteIndex: next_write_index_ = (next_write_index_ + 1) % store_.size()
PushAdvanceIndex ==
    /\ ~exited /\ dpc # "done"
    /\ ProducerOp = "idx"
    /\ next_write_index_' = WriteIndexAfter(next_write_index_)
    /\ ppc' = ProducerPcAfter
    /\ ProducerHistory
    /\ UNCHANGED << store_, next_read_index_, num_elements_,
                    running_, file_, flushed, fileOpen, pval, pushes, fpc, next,
                    rtype, dpc, exited, written, readSeq, overrun, notLogger >>

\* updateWriteIndex: num_elements_++
PushIncrementCount ==
    /\ ~exited /\ dpc # "done"
    /\ ProducerOp = "cnt"
    /\ num_elements_' = CountAfterWrite(num_elements_)
    /\ ppc' = ProducerPcAfter
    /\ ProducerHistory
    /\ UNCHANGED << store_, next_write_index_, next_read_index_,
                    running_, file_, flushed, fileOpen, pval, pushes, fpc, next,
                    rtype, dpc, exited, written, readSeq, overrun, notLogger >>

(***************************************************************************)
(* Logger::flushQueue: the flush task.                                     *)
(***************************************************************************)
LoopForever(r) == TRUE

\* while(running_): the loop goes on
LoopContinues(r) == r

\* while(running_)
FlushWhile ==
    /\ ~exited
    /\ fpc = "while"
    /\ fpc' = IF LoopContinues(running_) THEN "get" ELSE "exit"
    /\ UNCHANGED << qvars, running_, file_, flushed, fileOpen, ppc, pval, pushes,
                    next, rtype, dpc, exited, hvars, notLogger >>

\* next = queue_.getNextToRead()  (the for statement's init and step)
FlushGetNext ==
    /\ ~exited
    /\ fpc = "get"
    /\ next' = getNextToRead
    /\ fpc' = "cond"
    /\ UNCHANGED << qvars, running_, file_, flushed, fileOpen, ppc, pval, pushes,
                    rtype, dpc, exited, hvars, notLogger >>

NeverHasNext(n, p) == FALSE

\* queue_.size() && next
HasNext(n, p) == n # 0 /\ p # -1

\* queue_.size() && next  (the for statement's condition)
FlushCondition ==
    /\ ~exited
    /\ fpc = "cond"
    /\ fpc' = IF HasNext(num_elements_, next) THEN "rtype" ELSE "flush"
    /\ UNCHANGED << qvars, running_, file_, flushed, fileOpen, ppc, pval, pushes,
                    next, rtype, dpc, exited, hvars, notLogger >>

\* switch(next->type_)
FlushReadType ==
    /\ ~exited
    /\ fpc = "rtype"
    /\ rtype' = store_[next].type
    /\ fpc' = "rval"
    /\ UNCHANGED << qvars, running_, file_, flushed, fileOpen, ppc, pval, pushes,
                    next, dpc, exited, hvars, notLogger >>

\* file_ << next->u_.x  (a stream that is not open takes nothing)
FlushWriteElement ==
    /\ ~exited
    /\ fpc = "rval"
    /\ LET e == [type |-> rtype, v |-> store_[next].v] IN
         /\ file_' = IF fileOpen THEN file_ \o ElementText(e) ELSE file_
         /\ readSeq' = Append(readSeq, e)
    /\ fpc' = "ridx"
    /\ UNCHANGED << qvars, running_, flushed, fileOpen, ppc, pval, pushes,
                    next, rtype, dpc, exited, written, overrun, latePush, notLogger >>

\* updateReadIndex: next_read_index_ = (next_read_index_ + 1) % store_.size()
FlushAdvanceIndex ==
    /\ ~exited
    /\ fpc = "ridx"
    /\ next_read_index_' = ReadIndexAfter(next_read_index_)
    /\ fpc' = "dec"
    /\ UNCHANGED << store_, next_write_index_, num_elements_, running_, file_,
                    flushed, fileOpen, ppc, pval, pushes, next, rtype, dpc,
                    exited, hvars, notLogger >>

ReadNeverAborts(c) == FALSE

\* updateReadIndex: ASSERT(num_elements_ != 0, ...) fails
ReadAborts(c) == ~(c # 0)

CountKeptAfterRead(c) == c

\* updateReadIndex: num_elements_--
CountAfterRead(c) == c - 1

\* updateReadIndex: ASSERT(num_elements_ != 0, ...); num_elements_--
FlushDecrementCount ==
    /\ ~exited
    /\ fpc = "dec"
    /\ IF ReadAborts(num_elements_)
         THEN /\ exited' = TRUE
              /\ UNCHANGED << num_elements_, fpc >>
         ELSE /\ num_elements_' = CountAfterRead(num_elements_)
              /\ fpc' = "get"
              /\ UNCHANGED exited
    /\ UNCHANGED << store_, next_write_index_, next_read_index_, running_, file_,
                    flushed, fileOpen, ppc, pval, pushes, next, rtype, dpc,
                    hvars, notLogger >>

\* file_.flush()
FlushFile ==
    /\ ~exited
    /\ fpc = "flush"
    /\ flushed' = IF fileOpen THEN Len(file_) ELSE flushed
    /\ fpc' = "sleep"
    /\ UNCHANGED << qvars, running_, file_, fileOpen, ppc, pval, pushes,
                    next, rtype, dpc, exited, hvars, notLogger >>

\* this_thread::sleep_for(10ms)
FlushSleep ==
    /\ ~exited
    /\ fpc = "sleep"
    /\ fpc' = "while"
    /\ UNCHANGED << qvars, running_, file_, flushed, fileOpen, ppc, pval, pushes,
                    next, rtype, dpc, exited, hvars, notLogger >>

(***************************************************************************)
(* Logger::~Logger.                                                        *)
(***************************************************************************)
\* the destructor is entered
DtorBegin ==
    /\ ~exited
    /\ dpc = "alive"
    /\ dpc' = "wait"
    /\ latePush' = (latePush \/ ppc # 0)
    /\ UNCHANGED << qvars, running_, file_, flushed, fileOpen, ppc, pval, pushes,
                    fpc, next, rtype, exited, written, readSeq, overrun, notLogger >>

\* while(queue_.size()) sleep_for(1s): left when size() is seen to be 0
DtorWaitNoDrain ==
    /\ ~exited
    /\ dpc = "wait"
    /\ dpc' = "stop"
    /\ UNCHANGED << qvars, running_, file_, flushed, fileOpen, ppc, pval, pushes,
                    fpc, next, rtype, exited, hvars, notLogger >>

DtorWait ==
    /\ ~exited
    /\ dpc = "wait"
    /\ num_elements_ = 0
    /\ dpc' = "stop"
    /\ UNCHANGED << qvars, running_, file_, flushed, fileOpen, ppc, pval, pushes,
                    fpc, next, rtype, exited, hvars, notLogger >>

\* running_ = false
DtorStop ==
    /\ ~exited
    /\ dpc = "stop"
    /\ running_' = FALSE
    /\ dpc' = "join"
    /\ UNCHANGED << qvars, file_, flushed, fileOpen, ppc, pval, pushes,
                    fpc, next, rtype, exited, hvars, notLogger >>

DtorJoinNoWait ==
    /\ ~exited
    /\ dpc = "join"
    /\ dpc' = "close"
    /\ UNCHANGED << qvars, running_, file_, flushed, fileOpen, ppc, pval, pushes,
                    fpc, next, rtype, exited, hvars, notLogger >>

\* logger_thread_->join(): returns when flushQueue has returned
DtorJoin ==
    /\ ~exited
    /\ dpc = "join"
    /\ fpc = "exit"
    /\ dpc' = "close"
    /\ UNCHANGED << qvars, running_, file_, flushed, fileOpen, ppc, pval, pushes,
                    fpc, next, rtype, exited, hvars, notLogger >>

\* file_.close(): writes what the stream still buffers, then closes
DtorClose ==
    /\ ~exited
    /\ dpc = "close"
    /\ flushed' = Len(file_)
    /\ fileOpen' = FALSE
    /\ dpc' = "done"
    /\ UNCHANGED << qvars, running_, file_, ppc, pval, pushes,
                    fpc, next, rtype, exited, hvars, notLogger >>

(***************************************************************************)
(* The logger with its ring buffer: one producer, the flush task and the   *)
(* thread that destroys the logger.                                        *)
(***************************************************************************)
Init ==
    QueueInit /\ LoggerInit /\ PoolInitN(1) /\ FormatIdle /\ SocketInit /\ ServerInit
    /\ DirectInit /\ SetupIdle

Next ==
    \/ \E e \in PushedElements : PushBegin(e)
    \/ PushWriteType
    \/ PushWriteValue
    \/ PushAdvanceIndex
    \/ PushIncrementCount
    \/ FlushWhile
    \/ FlushGetNext
    \/ FlushCondition
    \/ FlushReadType
    \/ FlushWriteElement
    \/ FlushAdvanceIndex
    \/ FlushDecrementCount
    \/ FlushFile
    \/ FlushSleep
    \/ DtorBegin
    \/ DtorWait
    \/ DtorStop
    \/ DtorJoin
    \/ DtorClose

Spec == Init /\ [][Next]_vars

\* the steps of the flush task and of the destroying thread
FlushStep ==
    \/ FlushWhile \/ FlushGetNext \/ FlushCondition \/ FlushReadType
    \/ FlushWriteElement \/ FlushAdvanceIndex \/ FlushDecrementCount
    \/ FlushFile \/ FlushSleep

DtorStep == DtorWait \/ DtorStop \/ DtorJoin \/ DtorClose

\* the flush task is scheduled fairly, and so is a thread that has entered
\* the destructor; the producer may stop at any point
SpecFair == Spec /\ WF_vars(FlushStep) /\ WF_vars(DtorStep)

(***************************************************************************)
(* Ring buffer and logger: properties.                                     *)
(***************************************************************************)
\* updateReadIndex calls completed
Consumed == Len(readSeq) - (IF fpc \in {"ridx", "dec"} THEN 1 ELSE 0)

\* count increments completed
Published == num_elements_ + Consumed

\* the slots of the elements that are counted and not yet released
UnreadSlots == { (k - 1) % QueueCap : k \in (Consumed + 1) .. Published }

\* what the file on disk holds
FileOnDisk == SubSeq(file_, 1, flushed)

\* C1: as long as no push begins while size() is the capacity, the elements
\* the consumer reads are, in order, the elements the producer wrote: always a
\* prefix of them, and all of them once the buffer is empty and no push is in
\* progress.
C1_StrictFifo ==
    ~overrun =>
        /\ IsPrefix(readSeq, written)
        /\ (ppc = 0 /\ num_elements_ = 0) => readSeq = written

\* the consumer drained more elements than the buffer has slots, in order
C1_Witness ==
    /\ ~overrun
    /\ Len(readSeq) > QueueCap
    /\ readSeq = written

\* C2: every count increment follows the slot write it publishes, so when the
\* consumer has seen a non-zero count and holds the slot at the read index, the
\* write of the element it is about to read has completed; and that slot holds
\* the whole element as long as the buffer was never overrun.
C2_PublicationOrder ==
    /\ Published <= Len(written)
    /\ fpc \in {"rtype", "rval"} =>
          /\ Len(written) > Len(readSeq)
          /\ ~overrun => store_[next] = written[Len(readSeq) + 1]

\* the consumer reads a slot while the producer is half way through writing
\* another one
C2_Witness ==
    /\ ~overrun
    /\ fpc = "rval"
    /\ ProducerOp = "val"

\* C3 as stated: the count never exceeds the capacity.
C3_CountWithinCapacity ==
    ~exited => (0 <= num_elements_ /\ num_elements_ <= QueueCap)

\* C3, amended: the count is never negative, and it is at most the capacity as
\* long as no push begins while size() is the capacity.
C3_CountBound ==
    ~exited =>
        /\ 0 <= num_elements_
        /\ ~overrun => num_elements_ <= QueueCap

\* the buffer is full after the consumer has released elements
C3_Witness ==
    /\ ~overrun /\ ~exited
    /\ num_elements_ = QueueCap
    /\ Consumed > 0

\* C4 as stated: the slot the producer is writing never holds a counted,
\* unreleased element.
C4_NeverOverwritesUnread ==
    ProducerOp \in {"type", "val"} => next_write_index_ \notin UnreadSlots

\* C4, amended: as long as no push begins while size() is the capacity, the
\* slot the producer is writing never holds a counted, unreleased element.
C4_NoOverwriteUnlessOverrun ==
    (~overrun /\ ProducerOp \in {"type", "val"}) =>
        next_write_index_ \notin UnreadSlots

\* the producer writes the last free slot, after the indices have wrapped
C4_Witness ==
    /\ ~overrun
    /\ ProducerOp = "val"
    /\ num_elements_ = QueueCap - 1
    /\ Len(written) >= QueueCap

\* C5: when the destructor has returned, no push was in progress when the
\* destructor began or later, and the buffer was never overrun, the file on disk is the
\* text of every pushed element, once each, in push order.
C5_NoLossOnShutdown ==
    (dpc = "done" /\ ~overrun /\ ~latePush) =>
        /\ Len(written) = pushes
        /\ readSeq = written
        /\ FileOnDisk = TextOf(written)

\* an orderly shutdown after more pushes than the buffer has slots
C5_Witness ==
    /\ dpc = "done" /\ ~overrun /\ ~latePush
    /\ pushes > QueueCap

(***************************************************************************)
(* MemPool<T>.  A pointer into the pool is given by its distance from      *)
(* &store_[0] in ObjectBlocks, which is what deallocate computes from it;  *)
(* -1 and store_.size() stand for pointers that are not into the pool.     *)
(***************************************************************************)
PoolSlots == 0 .. (poolN - 1)
PoolPointers == -1 .. poolN

\* the loop of updateNextFreeIndex, entered with the index i
RECURSIVE ScanForFree(_, _, _)
ScanForFree(free, i, initial_free_index) ==
    IF free[i]
      THEN [idx |-> i, out_of_space |-> FALSE]
      ELSE LET j == IF i + 1 = poolN THEN 0 ELSE i + 1 IN
           IF initial_free_index = j
             THEN [idx |-> j, out_of_space |-> TRUE]
             ELSE ScanForFree(free, j, initial_free_index)

updateNextFreeIndexSkipped(free) ==
    [idx |-> next_free_index_, out_of_space |-> FALSE]

\* updateNextFreeIndex: the next free index, or the failed "out of space" ASSERT
updateNextFreeIndex(free) ==
    ScanForFree(free, next_free_index_, next_free_index_)

MarkUsedForgotten(free, i) == free

\* allocate: obj_block->is_free_ = false
MarkUsed(free, i) == [free EXCEPT ![i] = FALSE]

\* allocate(args...)
Allocate ==
    /\ ~poolExited
    /\ Len(returned) < MaxAllocs
    /\ roundRobin' = (roundRobin /\ poolLast.op \in {"none", "deallocate"})
    /\ IF ~is_free_[next_free_index_]
         THEN \* ASSERT(obj_block->is_free_, ...) fails
              /\ poolExited' = TRUE
              /\ poolLast' = [op |-> "allocate", idx |-> next_free_index_,
                              aborted |-> TRUE, before |-> is_free_]
              /\ UNCHANGED << is_free_, next_free_index_, live, returned >>
         ELSE LET used == MarkUsed(is_free_, next_free_index_)
                  scan == updateNextFreeIndex(used)
              IN  /\ is_free_' = used
                  /\ next_free_index_' = scan.idx
                  /\ poolLast' = [op |-> "allocate", idx |-> next_free_index_,
                                  aborted |-> scan.out_of_space,
                                  before |-> is_free_]
                  /\ poolExited' = scan.out_of_space
                  /\ IF scan.out_of_space
                       THEN UNCHANGED << live, returned >>
                       ELSE /\ live' = [live EXCEPT ![next_free_index_] = @ + 1]
                            /\ returned' = Append(returned, next_free_index_)
    /\ UNCHANGED << poolN, notPool >>

CanDeallocateAnySlot(k) == k >= 0 /\ k < poolN

\* deallocate: both ASSERTs pass
CanDeallocate(k) == k >= 0 /\ k < poolN /\ ~is_free_[k]

\* deallocate(elem), elem at distance k from &store_[0]
Deallocate(k) ==
    /\ ~poolExited
    /\ roundRobin' = (roundRobin /\ poolLast.op = "allocate" /\ poolLast.idx = k)
    /\ poolLast' = [op |-> "deallocate", idx |-> k,
                    aborted |-> ~CanDeallocate(k), before |-> is_free_]
    /\ IF CanDeallocate(k)
         THEN /\ is_free_' = [is_free_ EXCEPT ![k] = TRUE]
              /\ live' = [live EXCEPT ![k] = IF @ > 0 THEN @ - 1 ELSE 0]
              /\ UNCHANGED poolExited
         ELSE /\ poolExited' = TRUE
              /\ UNCHANGED << is_free_, live >>
    /\ UNCHANGED << poolN, next_free_index_, returned, notPool >>

\* pools of every capacity up to MaxPoolSize
PoolInit ==
    /\ QueueInit /\ LoggerInit /\ FormatIdle /\ SocketInit /\ ServerInit
    /\ DirectInit /\ SetupIdle
    /\ \E n \in 1 .. MaxPoolSize : PoolInitN(n)

PoolNext ==
    \/ Allocate
    \/ \E k \in PoolPointers : Deallocate(k)

SpecPool == PoolInit /\ [][PoolNext]_vars

(***************************************************************************)
(* MemPool: properties.                                                    *)
(***************************************************************************)
LiveSlots == { i \in PoolSlots : live[i] > 0 }
FreeBefore == { i \in PoolSlots : poolLast.before[i] }

\* C6: no slot backs more than one live object, and the slot allocate has just
\* returned was free before the call and backs exactly the new object.
C6_NoAliasing ==
    /\ \A i \in PoolSlots : live[i] <= 1
    /\ (poolLast.op = "allocate" /\ ~poolLast.aborted) =>
          /\ poolLast.idx \in FreeBefore
          /\ live[poolLast.idx] = 1

\* allocate returns a slot that was used and released before, next to a slot
\* that still backs a live object
C6_Witness ==
    /\ poolLast.op = "allocate" /\ ~poolLast.aborted
    /\ \E j \in 1 .. (Len(returned) - 1) : returned[j] = poolLast.idx
    /\ Cardinality(LiveSlots) >= 2

\* C7: allocate aborts only when it is called with every slot in use.
C7_AbortsOnlyWhenFull ==
    (poolLast.op = "allocate" /\ poolLast.aborted) => FreeBefore = {}

\* C8: while the calls made are rounds of allocate, deallocate of the object
\* just allocated, starting from the empty pool, none of the first N allocate
\* calls aborts and the first N slots returned are distinct.
C8_RoundRobinReuse ==
    roundRobin =>
        /\ poolExited => Len(returned) >= poolN
        /\ \A i, j \in 1 .. Len(returned) :
              (i < j /\ j <= poolN) => returned[i] # returned[j]

\* C9: deallocate aborts exactly when the index is outside [0, N) or the slot
\* is already free; an abort changes no slot, and otherwise exactly that slot
\* becomes free.
C9_DeallocateValidation ==
    poolLast.op = "deallocate" =>
        LET k == poolLast.idx IN
        /\ poolLast.aborted <=> (k < 0 \/ k >= poolN \/ poolLast.before[k])
        /\ poolLast.aborted = poolExited
        /\ poolLast.aborted => is_free_ = poolLast.before
        /\ ~poolLast.aborted => is_free_ = [poolLast.before EXCEPT ![k] = TRUE]

\* a deallocate released one of two used slots
C9_Witness ==
    /\ poolLast.op = "deallocate" /\ ~poolLast.aborted
    /\ \E i \in PoolSlots : i # poolLast.idx /\ ~is_free_[i]


(***************************************************************************)
(* Logger::log(format, args...).  An argument is an int or a text (a       *)
(* null-terminated string); the position log_s stands for the pointer s,   *)
(* and a position past the end of the format for the terminating '\0'.     *)
(***************************************************************************)
Percent == 37

IntArg(n) == [kind |-> "int", v |-> n, s |-> << >>]
StrArg(t) == [kind |-> "str", v |-> 0, s |-> t]

\* the characters generated format strings are made of: 'a' and '%'
FormatAlphabet == {97, Percent}

\* "a=% b=%", "100%% done" and "%%%a%%"
ExampleFormats ==
    { << 97, 61, 37, 32, 98, 61, 37 >>,
      << 49, 48, 48, 37, 37, 32, 100, 111, 110, 101 >>,
      << 37, 37, 37, 97, 37, 37 >> }

FormatStrings ==
    ExampleFormats \cup
    UNION { [1 .. n -> FormatAlphabet] : n \in 0 .. MaxFmtLen }

\* 1, "x" and "%b"
ArgValues == { IntArg(1), StrArg(<< 120 >>), StrArg(<< Percent, 98 >>) }

ArgLists == UNION { [1 .. n -> ArgValues] : n \in 0 .. MaxArgs }

\* pushValue(const char): one CHAR element
CharElement(c) == [type |-> "CHAR", v |-> c]

\* pushValue(value) for an argument: pushValue(const int) enqueues one INTEGER
\* element, pushValue(const char *) one CHAR element per character
pushValueArg(a) ==
    IF a.kind = "int"
      THEN << [type |-> "INTEGER", v |-> a.v] >>
      ELSE [i \in 1 .. Len(a.s) |-> CharElement(a.s[i])]

\* *s and *(s + 1): 0 is the terminating '\0'
CharAt(i) == IF i <= Len(log_format) THEN log_format[i] ELSE 0

SamePosition(i) == i

\* the format position the recursive call log(s + 1, args...) starts at
AfterPlaceholder(i) == i + 1

EscapeNotSkipped(i) == i

\* for "%%" the ++s that moves s to the second '%'; any other character stays
EscapedPosition(i) == IF CharAt(i) = Percent THEN i + 1 ELSE i

ExtraArgumentsIgnored == "returned"

\* how the overload with arguments ends when the format is exhausted:
\* FATAL("extra arguments provided to log()")
ExtraArgumentsOutcome == "fatal"

\* the call log(format, args...): overload resolution
LogCall ==
    /\ log_state = "call"
    /\ log_state' = IF log_args = << >> THEN "noargs" ELSE "args"
    /\ UNCHANGED << log_format, log_call_args, log_args, log_s, log_pushed,
                    notFormat >>

\* log(const char *s, const T &value, A... args): one turn of its loop, or
\* the FATAL after it
LogWithArgs ==
    /\ log_state = "args"
    /\ IF CharAt(log_s) = 0
         THEN \* FATAL("extra arguments provided to log()")
              /\ log_state' = ExtraArgumentsOutcome
              /\ UNCHANGED << log_args, log_s, log_pushed >>
         ELSE IF CharAt(log_s) = Percent /\ CharAt(log_s + 1) # Percent
           THEN \* pushValue(value); log(s + 1, args...); return
                /\ log_pushed' = log_pushed \o pushValueArg(Head(log_args))
                /\ log_args' = Tail(log_args)
                /\ log_s' = AfterPlaceholder(log_s)
                /\ log_state' = IF Tail(log_args) = << >> THEN "noargs"
                                                          ELSE "args"
           ELSE \* (for "%%": ++s;) pushValue(*s++)
                LET at == EscapedPosition(log_s)
                IN  /\ log_pushed' = Append(log_pushed, CharElement(CharAt(at)))
                    /\ log_s' = at + 1
                    /\ UNCHANGED << log_args, log_state >>
    /\ UNCHANGED << log_format, log_call_args, notFormat >>

\* log(const char *s): one turn of its loop, or its return
LogNoArgs ==
    /\ log_state = "noargs"
    /\ IF CharAt(log_s) = 0
         THEN /\ log_state' = "returned"
              /\ UNCHANGED << log_s, log_pushed >>
         ELSE IF CharAt(log_s) = Percent /\ CharAt(log_s + 1) # Percent
           THEN \* FATAL("missing arguments to log()")
                /\ log_state' = "fatal"
                /\ UNCHANGED << log_s, log_pushed >>
           ELSE \* (for "%%": ++s;) pushValue(*s++)
                LET at == EscapedPosition(log_s)
                IN  /\ log_pushed' = Append(log_pushed, CharElement(CharAt(at)))
                    /\ log_s' = at + 1
                    /\ UNCHANGED log_state
    /\ UNCHANGED << log_format, log_call_args, log_args, notFormat >>

\* one log call, for every format string and argument list of the bounds
LogInit ==
    /\ QueueInit /\ LoggerInit /\ PoolInitN(1) /\ SocketInit /\ ServerInit
    /\ DirectInit /\ SetupIdle
    /\ log_format \in FormatStrings
    /\ log_call_args \in ArgLists
    /\ log_args = log_call_args
    /\ log_s = 1
    /\ log_pushed = << >>
    /\ log_state = "call"

LogNext ==
    \/ LogCall
    \/ LogWithArgs
    \/ LogNoArgs

SpecLog == LogInit /\ [][LogNext]_vars

(***************************************************************************)
(* Logger::log: properties.                                                *)
(***************************************************************************)
\* the textual form of an argument
ArgText(a) == IF a.kind = "int" THEN IntText(a.v) ELSE a.s

\* the number of unescaped '%' of a format, read left to right
RECURSIVE Placeholders(_)
Placeholders(f) ==
    IF f = << >> THEN 0
    ELSE IF Head(f) # Percent THEN Placeholders(Tail(f))
    ELSE IF Len(f) >= 2 /\ f[2] = Percent THEN Placeholders(Tail(Tail(f)))
    ELSE 1 + Placeholders(Tail(f))

\* the format with "%%" as '%' and the i-th unescaped '%' replaced by the text
\* of the i-th argument
RECURSIVE Rendered(_, _)
Rendered(f, as) ==
    IF f = << >> THEN << >>
    ELSE IF Head(f) # Percent THEN << Head(f) >> \o Rendered(Tail(f), as)
    ELSE IF Len(f) >= 2 /\ f[2] = Percent
      THEN << Percent >> \o Rendered(Tail(Tail(f)), as)
    ELSE ArgText(Head(as)) \o Rendered(Tail(f), Tail(as))

FormatMatchesArgs == Placeholders(log_format) = Len(log_call_args)

\* C10: for a format with as many unescaped '%' as the call has arguments, log
\* does not abort, what it has enqueued so far is a prefix of the rendered
\* format, and when it returns the enqueued text is the rendered format; for
\* log("a=% b=%", 1, "x") that text is "a=1 b=x".
C10_FormatSubstitution ==
    FormatMatchesArgs =>
        /\ log_state # "fatal"
        /\ IsPrefix(TextOf(log_pushed), Rendered(log_format, log_call_args))
        /\ log_state = "returned" =>
              /\ TextOf(log_pushed) = Rendered(log_format, log_call_args)
              /\ ( /\ log_format = << 97, 61, 37, 32, 98, 61, 37 >>
                   /\ log_call_args = << IntArg(1), StrArg(<< 120 >>) >> )
                 => TextOf(log_pushed) = << 97, 61, 49, 32, 98, 61, 120 >>

\* log("a=% b=%", 1, "x") has returned
C10_Witness ==
    /\ log_state = "returned"
    /\ log_format = << 97, 61, 37, 32, 98, 61, 37 >>
    /\ log_call_args = << IntArg(1), StrArg(<< 120 >>) >>

\* the part of the format the call has gone through
FormatDone == SubSeq(log_format, 1, log_s - 1)

\* a step of log that starts at a "%%" pair
AtEscape ==
    /\ log_state \in {"args", "noargs"}
    /\ CharAt(log_s) = Percent
    /\ CharAt(log_s + 1) = Percent

\* C11: a step of log that starts at a "%%" pair enqueues exactly one '%'
\* character, moves past both characters and consumes no argument, with
\* arguments left and with none left; in every state the arguments consumed
\* are as many as the unescaped '%' gone through, and log("100%% done")
\* returns having enqueued "100% done".
C11_PercentEscape ==
    /\ [][AtEscape =>
            /\ log_pushed' = Append(log_pushed, CharElement(Percent))
            /\ log_s' = log_s + 2
            /\ log_args' = log_args
            /\ log_state' = log_state]_vars
    /\ [](Len(log_call_args) - Len(log_args) = Placeholders(FormatDone))
    /\ []((/\ log_state = "returned"
           /\ log_format = << 49, 48, 48, 37, 37, 32, 100, 111, 110, 101 >>)
          => TextOf(log_pushed) = << 49, 48, 48, 37, 32, 100, 111, 110, 101 >>)

\* log("%%%a%%", "x") has returned: one pair gone through with the argument
\* left, one after it was consumed
C11_Witness ==
    /\ log_state = "returned"
    /\ log_format = << 37, 37, 37, 97, 37, 37 >>
    /\ log_call_args = << StrArg(<< 120 >>) >>
    /\ TextOf(log_pushed) = << 37, 120, 97, 37 >>

\* C12: log returns normally only from a call whose number of unescaped '%'
\* equals its number of arguments.  The format is exhausted with arguments
\* left, or an unescaped '%' is met with none left, only in a mismatched call;
\* the call has a next step until it has returned or aborted, and it aborts
\* only at one of these two places.
C12_MismatchIsFatal ==
    /\ log_state = "returned" => FormatMatchesArgs
    /\ (log_state = "args" /\ CharAt(log_s) = 0) => ~FormatMatchesArgs
    /\ ( /\ log_state = "noargs"
         /\ CharAt(log_s) = Percent
         /\ CharAt(log_s + 1) # Percent ) => ~FormatMatchesArgs
    /\ log_state \in {"call", "args", "noargs"} => ENABLED LogNext
    /\ (log_state = "fatal" /\ log_args # << >>) => CharAt(log_s) = 0
    /\ (log_state = "fatal" /\ log_args = << >>) => CharAt(log_s) = Percent

\* the call aborted on extra arguments after consuming one
C12_Witness ==
    /\ log_state = "fatal"
    /\ log_args # << >>
    /\ Len(log_call_args) > Len(log_args)

(***************************************************************************)
(* McastSocket: send and sendAndRecv.  What recv and ::send return is the  *)
(* operating system's choice.                                              *)
(***************************************************************************)
Bytes == {1, 2}

\* the data of a send(data, len) call
SendData == UNION { [1 .. n -> Bytes] : n \in 0 .. MaxSendLen }

\* memcpy(outbound_data_.data() + next_send_valid_index_, data, len): the
\* buffer afterwards (bytes past the end of the buffer land outside it)
CopyIntoBuffer(buf, at, data) ==
    [i \in 0 .. (McastBufferSize - 1) |->
        IF i >= at /\ i < at + Len(data) THEN data[i - at + 1] ELSE buf[i]]

\* the first n bytes of the buffer, which ::send(fd, data(), len) hands over
BufferPrefix(buf, n) == [i \in 1 .. n |-> buf[i - 1]]

ReceivedAnyOrNone(n_rcv) == n_rcv >= 0

\* if(n_rcv > 0)
ReceivedAny(n_rcv) == n_rcv > 0

RcvIndexOverwritten(index, n_rcv) == n_rcv

\* next_rcv_valid_index_ += n_rcv
RcvIndexAfter(index, n_rcv) == index + n_rcv

SendIndexKeepsUnsent(index, n) == IF n > 0 THEN index - n ELSE index

\* next_send_valid_index_ = 0, whatever ::send returned
SendIndexAfter(index, n) == 0

\* send(data, len)
SocketSend(data) ==
    /\ ~sockExited
    /\ LET len == Len(data)
           index == next_send_valid_index_ + len
       IN  /\ outbound_data_' =
                  CopyIntoBuffer(outbound_data_, next_send_valid_index_, data)
           /\ next_send_valid_index_' = index
           /\ sock_appended' = sock_appended \o data
           \* ASSERT(next_send_valid_index_ < McastBufferSize, ...)
           /\ sockExited' = ~(index < McastBufferSize)
           /\ sockLast' = [SocketCall("send") EXCEPT
                              !.before = next_send_valid_index_,
                              !.len = len,
                              !.aborted = ~(index < McastBufferSize),
                              !.outside = (index > McastBufferSize)]
    /\ UNCHANGED << next_rcv_valid_index_, notSocket >>

\* sendAndRecv(): recv returns n_rcv, ::send (when attempted) returns n, and
\* the receive callback may consume the inbound buffer
SocketSendAndRecv(n_rcv, n, consume) ==
    /\ ~sockExited
    /\ n_rcv <= McastBufferSize - next_rcv_valid_index_
    /\ IF next_send_valid_index_ > 0 THEN n <= next_send_valid_index_ ELSE n = 0
    /\ ReceivedAny(n_rcv) \/ ~consume
    /\ LET advanced == IF ReceivedAny(n_rcv)
                         THEN RcvIndexAfter(next_rcv_valid_index_, n_rcv)
                         ELSE next_rcv_valid_index_
           attempted == next_send_valid_index_ > 0
           delivered == IF attempted /\ n > 0
                          THEN BufferPrefix(outbound_data_, n) ELSE << >>
       IN  /\ next_rcv_valid_index_' = IF consume THEN 0 ELSE advanced
           /\ next_send_valid_index_' = SendIndexAfter(next_send_valid_index_, n)
           /\ sock_appended' = << >>
           /\ sockLast' = [SocketCall("sendAndRecv") EXCEPT
                              !.before = next_send_valid_index_,
                              !.rcvBefore = next_rcv_valid_index_,
                              !.n_rcv = n_rcv,
                              !.rcvAdvanced = advanced,
                              !.callbacks = IF ReceivedAny(n_rcv) THEN 1 ELSE 0,
                              !.attempted = attempted,
                              !.n = n,
                              !.appended = sock_appended,
                              !.delivered = delivered,
                              !.result = (n_rcv > 0)]
    /\ UNCHANGED << outbound_data_, sockExited, notSocket >>

SocketNext ==
    \/ \E data \in SendData : SocketSend(data)
    \/ \E n_rcv \in -1 .. McastBufferSize, n \in -1 .. McastBufferSize,
          consume \in BOOLEAN : SocketSendAndRecv(n_rcv, n, consume)

SpecSocket == Init /\ [][SocketNext]_vars

(***************************************************************************)
(* McastSocket: properties.                                                *)
(***************************************************************************)
\* C13: the bytes a sendAndRecv() call delivers to the network are the bytes
\* appended by the send() calls since the previous sendAndRecv(), in order.
C13_TransmitsWhatWasAppended ==
    sockLast.op = "sendAndRecv" => sockLast.delivered = sockLast.appended

\* C14: a sendAndRecv() call invokes the receive callback once when recv
\* returned a positive count and not at all when it returned 0 or an error,
\* and then leaves the inbound high-water mark as it was.
C14_ReceiveCallback ==
    sockLast.op = "sendAndRecv" =>
        /\ sockLast.n_rcv > 0 => sockLast.callbacks = 1
        /\ sockLast.n_rcv <= 0 =>
              /\ sockLast.callbacks = 0
              /\ next_rcv_valid_index_ = sockLast.rcvBefore
        /\ sockLast.result = (sockLast.callbacks = 1)

\* bytes arrived behind bytes already buffered, and the callback ran once
C14_Witness ==
    /\ sockLast.op = "sendAndRecv"
    /\ sockLast.n_rcv > 0
    /\ sockLast.rcvBefore > 0
    /\ sockLast.callbacks = 1

\* C15: send aborts exactly when the bytes buffered plus len exceed the
\* capacity of the outbound buffer, and writes no byte outside the buffer.
C15_SendCapacityCheck ==
    sockLast.op = "send" =>
        /\ sockLast.aborted <=> (sockLast.before + sockLast.len > McastBufferSize)
        /\ ~sockLast.outside

(***************************************************************************)
(* TCPServer: listen, poll and sendAndRecv.  The reactor runs on one       *)
(* thread, so its calls never overlap; what the kernel returns (events,    *)
(* accepted descriptors, failures) is the kernel's choice.                 *)
(***************************************************************************)
\* &listener_socket_; the sockets of the accept loop are 1 .. nsock
Listener == 0

\* a TCPSocket the application created itself
AppSocket == MaxSockets + 1

Knote(s, filter) == [sock |-> s, filter |-> filter]

InVector(vec, s) == \E i \in 1 .. Len(vec) : vec[i] = s

AlwaysPushBack(vec, s) == Append(vec, s)

KeepOnlyNewest(vec, s) == << s >>

\* if(find(vec.begin(), vec.end(), socket) == vec.end()) vec.push_back(socket)
AddIfAbsent(vec, s) == IF InVector(vec, s) THEN vec ELSE Append(vec, s)

RegistrationDropped(k, s) == k

RegisterWrite(k, s) == k \cup {Knote(s, "WRITE")}

\* EV_SET(&ev, fd, EVFILT_READ, EV_ADD | EV_CLEAR, 0, 0, socket); kevent(...)
RegisterRead(k, s) == k \cup {Knote(s, "READ")}

\* the accept loop's EV_SET(&evSet, ..., EVFILT_READ, EV_ADD | EV_CLEAR, ...)
\* and kevent(kqueue_fd_, &evSet, 1, nullptr, 0, nullptr)
RegisterAccepted(k, s) == RegisterRead(k, s)

\* addToEpollList: return kevent(kqueue_fd_, &ev, 1, nullptr, 0, nullptr) != 1
addToEpollList(ret) == ret # 1

\* listen(iface, port): kqueue() returns q, listener_socket_.connect returns c
\* and the kevent call of addToEpollList returns ret
Listen(q, c, ret) ==
    /\ ~srvExited /\ pollpc = "idle"
    /\ kqueue_fd_ = -1
    /\ kqueue_fd_' = q
    /\ IF q >= 0 /\ c >= 0
         THEN /\ kq' = IF ret = 0 THEN RegisterRead(kq, Listener) ELSE kq
              /\ srvExited' = ~addToEpollList(ret)
         ELSE /\ kq' = kq
              /\ srvExited' = TRUE
    /\ srv_op' = "listen"
    /\ tick_trace' = << >>
    /\ UNCHANGED << poll_pending, poll_errors,
                    receive_sockets_, send_sockets_, nsock, pending, pollpc,
                    poll_n, poll_i, poll_seen, have_new_connection,
                    poll_accepted, poll_first, added_again, external,
                    notServer >>

\* a client connects to the listening socket
ClientConnect ==
    /\ ~srvExited /\ kqueue_fd_ >= 0
    /\ nsock + pending < MaxSockets
    /\ pending' = pending + 1
    /\ UNCHANGED << poll_pending, poll_errors,
                    kqueue_fd_, kq, receive_sockets_, send_sockets_, nsock,
                    srvExited, pollpc, poll_n, poll_i, poll_seen,
                    have_new_connection, srv_op, poll_accepted, poll_first,
                    added_again, tick_trace, external, notServer >>

\* the application registers socket s for write-readiness on the public
\* kqueue_fd_, with the socket as the event's udata
ExternalRegisterWrite(s) ==
    /\ ~srvExited /\ pollpc = "idle" /\ kqueue_fd_ >= 0
    /\ Knote(s, "WRITE") \notin kq
    /\ Cardinality({k \in kq : k.filter = "WRITE"}) < MaxExternal
    /\ kq' = kq \cup {Knote(s, "WRITE")}
    /\ external' = TRUE
    /\ UNCHANGED << poll_pending, poll_errors,
                    kqueue_fd_, receive_sockets_, send_sockets_, nsock,
                    pending, srvExited, pollpc, poll_n, poll_i, poll_seen,
                    have_new_connection, srv_op, poll_accepted, poll_first,
                    added_again, tick_trace, notServer >>

Min(a, b) == IF a < b THEN a ELSE b

\* poll(): max_events and the kevent call, which returns n
PollKevent(n) ==
    /\ ~srvExited /\ pollpc = "idle"
    /\ LET max_events == 1 + Len(send_sockets_) + Len(receive_sockets_)
       IN  n <= Min(Min(max_events, Cardinality(kq)), MaxEvents)
    /\ poll_n' = n
    /\ poll_i' = 0
    /\ poll_seen' = {}
    /\ have_new_connection' = FALSE
    /\ pollpc' = "scan"
    /\ poll_accepted' = {}
    /\ poll_first' = nsock
    /\ poll_pending' = pending
    /\ poll_errors' = {}
    /\ added_again' = FALSE
    /\ tick_trace' = << >>
    /\ UNCHANGED << kqueue_fd_, kq, receive_sockets_, send_sockets_, nsock,
                    pending, srvExited, srv_op, external, notServer >>

NeverListenerRead(filter, socket) == FALSE

\* event.filter == EVFILT_READ and socket == &listener_socket_
IsListenerRead(filter, socket) == filter = "READ" /\ socket = Listener

ErrorFlagIgnored(err) == FALSE

\* event.flags & EV_ERROR
HasErrorFlag(err) == err

\* one iteration of the scan loop: events_[i] is the registration k, with
\* EV_ERROR in its flags when err
PollScan(k, err) ==
    /\ ~srvExited /\ pollpc = "scan"
    /\ poll_i < poll_n
    /\ k \in kq \ poll_seen
    /\ LET socket == k.sock
           listenerRead == IsListenerRead(k.filter, socket)
           read == k.filter = "READ" /\ ~listenerRead
           write == k.filter = "WRITE"
           error == HasErrorFlag(err) /\ ~listenerRead
           received == IF read THEN AddIfAbsent(receive_sockets_, socket)
                               ELSE receive_sockets_
       IN  /\ have_new_connection' = (have_new_connection \/ listenerRead)
           /\ send_sockets_' = IF write THEN AddIfAbsent(send_sockets_, socket)
                                        ELSE send_sockets_
           /\ receive_sockets_' = IF error THEN AddIfAbsent(received, socket)
                                           ELSE received
           /\ added_again' = \/ added_again
                             \/ read /\ InVector(receive_sockets_, socket)
                             \/ write /\ InVector(send_sockets_, socket)
                             \/ error /\ InVector(received, socket)
    /\ poll_errors' = IF err /\ k.sock # Listener THEN poll_errors \cup {k.sock}
                                                 ELSE poll_errors
    /\ poll_seen' = poll_seen \cup {k}
    /\ poll_i' = poll_i + 1
    /\ UNCHANGED poll_pending
    /\ UNCHANGED << kqueue_fd_, kq, nsock, pending, srvExited, pollpc, poll_n,
                    srv_op, poll_accepted, poll_first, tick_trace, external,
                    notServer >>

\* the scan loop ends: i < n is false
PollScanDone ==
    /\ ~srvExited /\ pollpc = "scan"
    /\ ~(poll_i < poll_n)
    /\ pollpc' = "accept"
    /\ UNCHANGED << poll_pending, poll_errors,
                    kqueue_fd_, kq, receive_sockets_, send_sockets_, nsock,
                    pending, srvExited, poll_n, poll_i, poll_seen,
                    have_new_connection, srv_op, poll_accepted, poll_first,
                    added_again, tick_trace, external, notServer >>

\* one iteration of while(have_new_connection): accept returns a descriptor
\* (fd >= 0) or -1, the descriptor's setup succeeds or not, and the kevent
\* call that registers the new socket returns ret
PollAccept(fd, setup, ret) ==
    /\ ~srvExited /\ pollpc = "accept"
    /\ have_new_connection
    /\ fd >= 0
    /\ pending > 0
    /\ pending' = pending - 1
    /\ IF setup
         THEN LET socket == nsock + 1
              IN  /\ nsock' = socket
                  /\ poll_accepted' = poll_accepted \cup {socket}
                  /\ kq' = IF ret = 0 THEN RegisterAccepted(kq, socket) ELSE kq
                  /\ srvExited' = ~(ret # -1)
                  /\ receive_sockets_' =
                         IF ret # -1 THEN AddIfAbsent(receive_sockets_, socket)
                                     ELSE receive_sockets_
         ELSE /\ srvExited' = TRUE
              /\ UNCHANGED << nsock, poll_accepted, kq, receive_sockets_ >>
    /\ UNCHANGED << poll_pending, poll_errors,
                    kqueue_fd_, send_sockets_, pollpc, poll_n, poll_i,
                    poll_seen, have_new_connection, srv_op, poll_first,
                    added_again, tick_trace, external, notServer >>

PollReturnFatal ==
    /\ ~srvExited /\ pollpc = "accept"
    /\ pollpc' = "idle"
    /\ srv_op' = "poll"
    /\ poll_n' = 0
    /\ poll_i' = 0
    /\ poll_seen' = {}
    /\ have_new_connection' = FALSE
    /\ srvExited' = have_new_connection
    /\ UNCHANGED << poll_pending, poll_errors,
                    kqueue_fd_, kq, receive_sockets_, send_sockets_, nsock,
                    pending, poll_accepted, poll_first,
                    added_again, tick_trace, external, notServer >>

\* poll() returns: no listener event was scanned, or accept returned -1
PollReturn ==
    /\ ~srvExited /\ pollpc = "accept"
    /\ pollpc' = "idle"
    /\ srv_op' = "poll"
    /\ poll_n' = 0
    /\ poll_i' = 0
    /\ poll_seen' = {}
    /\ have_new_connection' = FALSE
    /\ UNCHANGED << poll_pending, poll_errors,
                    kqueue_fd_, kq, receive_sockets_, send_sockets_, nsock,
                    pending, srvExited, poll_accepted, poll_first,
                    added_again, tick_trace, external, notServer >>

LastResultOnly(recv, r) == r

\* recv |= socket->sendAndRecv()
Accumulate(recv, r) == recv \/ r

\* for_each over receive_sockets_, from recv, with the calls' results res
RECURSIVE ForEachReceive(_, _)
ForEachReceive(res, recv) ==
    IF res = << >> THEN recv
                   ELSE ForEachReceive(Tail(res), Accumulate(recv, Head(res)))

BatchAlways(recv) == TRUE

\* if(recv) recv_finished_callback_()
BatchFinished(recv) == recv

\* the sendAndRecv() calls of one pass, in the vector's order
PassCalls(pass, vec, res) ==
    [i \in 1 .. Len(vec) |->
        [kind |-> "call", pass |-> pass, sock |-> vec[i], received |-> res[i]]]

FinishedCallback ==
    [kind |-> "finished", pass |-> "read", sock |-> -1, received |-> FALSE]

CallbackFirst(reads, finished, writes) == finished \o reads \o writes

\* the statements of TCPServer::sendAndRecv() in program order: the loop
\* over receive_sockets_, the callback, the loop over send_sockets_
TickOrder(reads, finished, writes) == reads \o finished \o writes

\* TCPServer::sendAndRecv(): rres and wres are what the sockets' sendAndRecv()
\* calls return (true when the call received bytes)
Tick(rres, wres) ==
    /\ ~srvExited /\ pollpc = "idle"
    /\ LET recv == ForEachReceive(rres, FALSE)
       IN  tick_trace' =
               TickOrder(PassCalls("read", receive_sockets_, rres),
                         IF BatchFinished(recv) THEN << FinishedCallback >>
                                                ELSE << >>,
                         PassCalls("write", send_sockets_, wres))
    /\ srv_op' = "tick"
    /\ poll_accepted' = {}
    /\ poll_pending' = 0
    /\ poll_errors' = {}
    /\ added_again' = FALSE
    /\ UNCHANGED << kqueue_fd_, kq, receive_sockets_, send_sockets_, nsock,
                    pending, srvExited, pollpc, poll_n, poll_i, poll_seen,
                    have_new_connection, poll_first, external, notServer >>

ServerNext ==
    \/ \E q \in {-1, 0}, c \in {-1, 0}, ret \in {-1, 0} : Listen(q, c, ret)
    \/ ClientConnect
    \/ \E s \in (0 .. nsock) \cup {AppSocket} : ExternalRegisterWrite(s)
    \/ \E n \in -1 .. MaxEvents : PollKevent(n)
    \/ \E k \in kq, err \in BOOLEAN : PollScan(k, err)
    \/ PollScanDone
    \/ \E fd \in {0}, setup \in BOOLEAN, ret \in {-1, 0} :
          PollAccept(fd, setup, ret)
    \/ PollReturn
    \/ \E rres \in [1 .. Len(receive_sockets_) -> BOOLEAN],
          wres \in [1 .. Len(send_sockets_) -> BOOLEAN] : Tick(rres, wres)

SpecServer == Init /\ [][ServerNext]_vars

(***************************************************************************)
(* TCPServer: properties.                                                  *)
(***************************************************************************)
\* positions of the last tick's sendAndRecv() calls of one pass
TickCalls(pass) ==
    {i \in 1 .. Len(tick_trace) :
        tick_trace[i].kind = "call" /\ tick_trace[i].pass = pass}

\* some socket of that pass received bytes in the last tick
ReceivedIn(pass) == \E i \in TickCalls(pass) : tick_trace[i].received

\* how often the batch-finished callback ran in the last tick
FinishedCount ==
    Cardinality({i \in 1 .. Len(tick_trace) : tick_trace[i].kind = "finished"})

TickReturned == srv_op = "tick" /\ pollpc = "idle"

\* C16: a tick calls sendAndRecv() on every read-interest socket, and runs
\* the batch-finished callback once if any of those calls received bytes,
\* however many did, and not at all if none did.
C16_BatchNotification ==
    TickReturned =>
        /\ \A i \in 1 .. Len(receive_sockets_) :
              /\ i \in TickCalls("read")
              /\ tick_trace[i].sock = receive_sockets_[i]
        /\ FinishedCount = (IF ReceivedIn("read") THEN 1 ELSE 0)

\* two accepted sockets both received in one tick: one callback
C16_Witness ==
    /\ TickReturned
    /\ \E i, j \in TickCalls("read") :
          /\ tick_trace[i].sock # tick_trace[j].sock
          /\ tick_trace[i].received /\ tick_trace[j].received
    /\ FinishedCount = 1

\* C17 as stated: a tick in which a socket of either set received data runs
\* the batch-finished callback exactly once.
C17_BatchCoversBothSets ==
    TickReturned =>
        ((ReceivedIn("read") \/ ReceivedIn("write")) => FinishedCount = 1)

\* C17: a tick runs the batch-finished callback exactly once when a socket
\* received data in the read-interest pass; data received only in the
\* write-interest pass runs no batch-finished callback.
C17_BatchCoversReadPassOnly ==
    TickReturned =>
        /\ ReceivedIn("read") => FinishedCount = 1
        /\ (ReceivedIn("write") /\ ~ReceivedIn("read")) => FinishedCount = 0

\* only a write-interest socket received, and no callback ran
C17_Witness ==
    /\ TickReturned
    /\ ReceivedIn("write") /\ ~ReceivedIn("read")
    /\ receive_sockets_ # << >>
    /\ FinishedCount = 0

PollReturned == srv_op = "poll" /\ pollpc = "idle" /\ ~srvExited

\* C18: when poll() returns, every connection it accepted has a socket of
\* its own, created by this call, which is registered with the kernel for
\* read-readiness and is in the read-interest set.
C18_AcceptedSocketMembership ==
    PollReturned =>
        /\ Cardinality(poll_accepted) = nsock - poll_first
        /\ \A s \in poll_accepted :
              /\ s > poll_first
              /\ Knote(s, "READ") \in kq
              /\ InVector(receive_sockets_, s)

\* one poll() accepted two connections
C18_Witness == PollReturned /\ Cardinality(poll_accepted) = 2

NoDuplicates(vec) == \A i, j \in 1 .. Len(vec) : vec[i] = vec[j] => i = j

\* C19: no socket appears twice in receive_sockets_ or twice in send_sockets_
C19_SetIdempotence ==
    NoDuplicates(receive_sockets_) /\ NoDuplicates(send_sockets_)

\* the scan met events of sockets that were already members of both sets
C19_Witness ==
    /\ PollReturned
    /\ added_again
    /\ receive_sockets_ # << >>
    /\ send_sockets_ # << >>
    /\ \E s \in 1 .. nsock :
          InVector(receive_sockets_, s) /\ InVector(send_sockets_, s)

(***************************************************************************)
(* LFQueue: size.                                                          *)
(***************************************************************************)
\* size(): return num_elements_.load()
size == num_elements_

\* neither the producer nor the flush task is inside a queue operation
NoOperationInProgress == ppc = 0 /\ fpc \notin {"ridx", "dec"}

\* C20: when no operation is in progress, size() is the number of completed
\* updateWriteIndex calls minus the number of completed updateReadIndex
\* calls; after k <= N writes and no read it is k.
C20_SizeIsWritesMinusReads ==
    NoOperationInProgress =>
        /\ size = Len(written) - Len(readSeq)
        /\ (readSeq = << >> /\ Len(written) <= QueueCap) => size = Len(written)

\* elements were written and some, not all, were read
C20_Witness ==
    /\ NoOperationInProgress
    /\ Len(readSeq) >= 1
    /\ Len(written) > Len(readSeq)
    /\ size = Len(written) - Len(readSeq)

(***************************************************************************)
(* LFQueue under direct calls from one thread: each call runs to its end   *)
(* before the next begins, in any order and at any count.                  *)
(***************************************************************************)
loggerIdle == << running_, file_, flushed, fileOpen, ppc, pval, pushes, fpc,
                 next, rtype, dpc >>

\* *(getNextToWrite()) = e; updateWriteIndex();
DirectWrite(e) ==
    /\ ~exited
    /\ num_elements_ < MaxCount
    /\ store_' = [store_ EXCEPT ![next_write_index_] = e]
    /\ next_write_index_' = WriteIndexAfter(next_write_index_)
    /\ num_elements_' = CountAfterWrite(num_elements_)
    /\ overrun' = (overrun \/ num_elements_ >= QueueCap)
    /\ qLast' = QueueCall("write")
    /\ UNCHANGED << next_read_index_, loggerIdle, exited, written, readSeq,
                    latePush, notQueue >>

\* getNextToRead()
DirectGetNextToRead ==
    /\ ~exited
    /\ qLast' = [QueueCall("getNextToRead") EXCEPT !.result = getNextToRead]
    /\ UNCHANGED << qvars, lvars, hvars, notQueue >>

\* updateReadIndex()
DirectUpdateReadIndex ==
    /\ ~exited
    /\ next_read_index_' = ReadIndexAfter(next_read_index_)
    /\ IF ReadAborts(num_elements_)
         THEN /\ exited' = TRUE
              /\ UNCHANGED num_elements_
         ELSE /\ num_elements_' = CountAfterRead(num_elements_)
              /\ UNCHANGED exited
    /\ qLast' = [QueueCall("updateReadIndex") EXCEPT
                    !.aborted = ReadAborts(num_elements_)]
    /\ UNCHANGED << store_, next_write_index_, loggerIdle, hvars, notQueue >>

DirectNext ==
    \/ \E e \in PushedElements : DirectWrite(e)
    \/ DirectGetNextToRead
    \/ DirectUpdateReadIndex

SpecQueue == Init /\ [][DirectNext]_vars

\* C21: getNextToRead() changes no field of the queue, and called at count 0
\* it returns null.
C21_EmptyReadIsNull ==
    qLast.op = "getNextToRead" =>
        /\ qLast.count = 0 => qLast.result = -1
        /\ store_ = qLast.store
        /\ next_write_index_ = qLast.writeIndex
        /\ next_read_index_ = qLast.readIndex
        /\ num_elements_ = qLast.count

\* the buffer was written, emptied, and read again
C21_Witness ==
    /\ qLast.op = "getNextToRead"
    /\ qLast.count = 0
    /\ qLast.result = -1
    /\ \E i \in 0 .. (QueueCap - 1) : store_[i] # DefaultElement

\* C22: updateReadIndex() at count > 0 advances readIndex by one modulo the
\* capacity, decrements count by one and touches nothing else; at count 0 it
\* exits the process.
C22_UpdateReadIndex ==
    qLast.op = "updateReadIndex" =>
        /\ qLast.count > 0 =>
              /\ ~exited
              /\ next_read_index_ = (qLast.readIndex + 1) % QueueCap
              /\ num_elements_ = qLast.count - 1
              /\ store_ = qLast.store
              /\ next_write_index_ = qLast.writeIndex
        /\ qLast.count = 0 => exited

\* the read index wrapped around
C22_Witness ==
    /\ qLast.op = "updateReadIndex"
    /\ qLast.count > 0
    /\ qLast.readIndex = QueueCap - 1
    /\ next_read_index_ = 0
    /\ ~exited

(***************************************************************************)
(* Logger: shutdown and progress.                                          *)
(***************************************************************************)
\* C23: running_ is cleared only by the destructor after its wait loop saw
\* the buffer empty; join returns only after running_ is cleared and the
\* flush task has returned; the file is closed only after that, and the
\* flush task writes no element once the file is closed.
C23_ShutdownOrdering ==
    /\ [][(dpc = "wait" /\ dpc' # "wait") => num_elements_ = 0]_vars
    /\ [][(running_ /\ ~running_') => dpc = "stop"]_vars
    /\ [](dpc \in {"close", "done"} => (~running_ /\ fpc = "exit"))
    /\ [](~fileOpen => (dpc = "done" /\ fpc = "exit"))
    /\ [][readSeq' # readSeq => fileOpen]_vars

\* the destructor completed while elements pushed late were still buffered
C23_Witness ==
    /\ dpc = "done" /\ ~fileOpen /\ fpc = "exit"
    /\ Len(readSeq) >= 1
    /\ num_elements_ > 0

\* C24: under a fairly scheduled flush task, whenever elements are published
\* and not yet released the buffer is eventually empty again, every element
\* published until then written to the file and released, unless running_ is
\* cleared first; every element read has been written to the file; and the
\* task goes to sleep only with everything it wrote flushed.
C24_DrainLiveness ==
    /\ (num_elements_ > 0) ~> (Published = Consumed \/ ~running_)
    /\ [](fileOpen => file_ = TextOf(readSeq))
    /\ [](fpc = "sleep" => flushed = Len(file_))

\* the task sleeps after a pass that drained elements, the flag still set
C24_Witness ==
    /\ running_ /\ dpc = "alive"
    /\ fpc = "sleep"
    /\ Consumed >= QueueCap
    /\ num_elements_ = 0
    /\ flushed = Len(file_)

\* C25: once the destructor is entered and the producer pushes no more, the
\* destructor completes: the wait loop exits, the flush task sees running_
\* cleared and returns, join returns and the file is closed.
C25_DestructorTerminates ==
    (dpc # "alive") ~> ((dpc = "done" /\ fpc = "exit" /\ ~running_) \/ latePush)

\* the destructor completed, no push was made during it
C25_Witness ==
    /\ dpc = "done" /\ ~latePush
    /\ fpc = "exit"
    /\ pushes >= 1
    /\ num_elements_ = 0

(***************************************************************************)
(* McastSocket: the high-water marks.                                      *)
(***************************************************************************)
\* C26: after a sendAndRecv() call next_send_valid_index_ is 0, whether
\* ::send took all, some or none of the bytes, failed, or was not called.
C26_OutboundReset ==
    sockLast.op = "sendAndRecv" => next_send_valid_index_ = 0

\* ::send took only a part of what was buffered
C26_Witness ==
    /\ sockLast.op = "sendAndRecv"
    /\ sockLast.attempted
    /\ sockLast.n > 0 /\ sockLast.n < sockLast.before
    /\ next_send_valid_index_ = 0

\* C27: next_rcv_valid_index_ never exceeds the capacity of the inbound
\* buffer; sendAndRecv() adds the number of bytes received to it and does
\* not lower it, and only a receive callback sets it back.
C27_InboundMark ==
    /\ next_rcv_valid_index_ <= McastBufferSize
    /\ sockLast.op = "sendAndRecv" =>
          /\ sockLast.rcvAdvanced =
                 sockLast.rcvBefore + (IF sockLast.n_rcv > 0 THEN sockLast.n_rcv ELSE 0)
          /\ sockLast.rcvAdvanced >= sockLast.rcvBefore
          /\ next_rcv_valid_index_ \in {sockLast.rcvAdvanced, 0}
          /\ sockLast.callbacks = 0 => next_rcv_valid_index_ = sockLast.rcvAdvanced

\* bytes arrived behind buffered ones and filled the inbound buffer
C27_Witness ==
    /\ sockLast.op = "sendAndRecv"
    /\ sockLast.rcvBefore > 0
    /\ sockLast.n_rcv > 0
    /\ next_rcv_valid_index_ = McastBufferSize

(***************************************************************************)
(* TCPServer: tick order, accept loop, error events.                       *)
(***************************************************************************)
\* positions of the batch-finished callback in the last tick
FinishedAt == {i \in 1 .. Len(tick_trace) : tick_trace[i].kind = "finished"}

\* C28: in a tick, every sendAndRecv() call of the read-interest pass, and
\* with it every receive callback that call makes, comes before the
\* batch-finished callback, and the batch-finished callback comes before
\* every sendAndRecv() call of the write-interest pass.
C28_TickOrdering ==
    TickReturned =>
        /\ \A i \in TickCalls("read"), j \in FinishedAt : i < j
        /\ \A j \in FinishedAt, k \in TickCalls("write") : j < k
        /\ \A i \in TickCalls("read"), k \in TickCalls("write") : i < k

\* a tick with a receiving read-interest socket, the callback and a
\* write-interest socket
C28_Witness ==
    /\ TickReturned
    /\ ReceivedIn("read")
    /\ FinishedAt # {}
    /\ TickCalls("write") # {}

\* C29: when poll() returns, at least as many connections were accepted as
\* were pending on the listener when poll() was called.
C29_AcceptLoopDrains ==
    PollReturned => Cardinality(poll_accepted) >= poll_pending

\* C30: when poll() returns, every socket other than the listener for which
\* the scan met an event with EV_ERROR is in receive_sockets_, whatever the
\* filter of the event.
C30_ErrorEvents ==
    PollReturned => \A s \in poll_errors : InVector(receive_sockets_, s)

\* a write event with EV_ERROR of a socket the reactor did not accept
C30_Witness ==
    /\ PollReturned
    /\ AppSocket \in poll_errors
    /\ InVector(send_sockets_, AppSocket)
    /\ InVector(receive_sockets_, AppSocket)

(***************************************************************************)
(* TCPServer: failures, membership and the event array.                    *)
(***************************************************************************)
\* the sockets that can be members: the listener, the accepted ones and the
\* application's
AllSockets == 0 .. AppSocket

\* C31: when accept returns -1 the accept loop ends and poll() returns: the
\* process goes on, and that accept changes neither vector, creates no
\* socket and registers nothing with the kernel.
C31_AcceptSoftFailure ==
    [][(pollpc = "accept" /\ have_new_connection /\ pollpc' = "idle") =>
          /\ ~srvExited'
          /\ receive_sockets_' = receive_sockets_
          /\ send_sockets_' = send_sockets_
          /\ nsock' = nsock
          /\ kq' = kq]_vars

\* the accept loop accepted a connection, then accept returned -1
C31_Witness ==
    /\ PollReturned
    /\ poll_accepted # {}
    /\ pending = 0

\* C32: listen() returns only with the event queue created, the listener
\* set up and the listener registered for read-readiness; any failure
\* exits the process.
C32_ListenFailFast ==
    (srv_op = "listen" /\ ~srvExited) =>
        /\ kqueue_fd_ >= 0
        /\ Knote(Listener, "READ") \in kq

\* C35: the listener is in neither vector, as long as no write registration
\* of the listener was made from outside the reactor.
C35_ListenerNeverMember ==
    Knote(Listener, "WRITE") \notin kq =>
        /\ ~InVector(receive_sockets_, Listener)
        /\ ~InVector(send_sockets_, Listener)

\* a poll() scanned the listener's event and accepted, among other events
C35_Witness ==
    /\ PollReturned
    /\ poll_accepted # {}
    /\ poll_errors # {}
    /\ Knote(Listener, "WRITE") \notin kq
    /\ ~InVector(receive_sockets_, Listener)

\* C36: the number of events poll() asks the kernel for is at most the
\* number of entries of events_.
C36_EventArrayBound ==
    (pollpc = "scan" /\ poll_i = 0) =>
        1 + Len(send_sockets_) + Len(receive_sockets_) <= EventArraySize

\* C37: while every kernel registration was made by the reactor,
\* send_sockets_ is empty.
C37_WriteSetEmpty == ~external => send_sockets_ = << >>

\* every accepted socket had a further event, no outside registration
C37_Witness ==
    /\ ~external
    /\ PollReturned
    /\ added_again
    /\ Len(receive_sockets_) = MaxSockets
    /\ send_sockets_ = << >>

\* C38: a socket that is in receive_sockets_ or in send_sockets_ is still
\* there after every step of the reactor.
C38_MembershipMonotone ==
    [][\A s \in AllSockets :
          /\ InVector(receive_sockets_, s) => InVector(receive_sockets_', s)
          /\ InVector(send_sockets_, s) => InVector(send_sockets_', s)]_vars

\* a tick ran with two read-interest members and a write-interest member
C38_Witness ==
    /\ TickReturned
    /\ Len(receive_sockets_) >= 2
    /\ send_sockets_ # << >>
    /\ ReceivedIn("read")

(***************************************************************************)
(* createSocket(logger, socket_cfg): one action per system call, in the    *)
(* order of the code.                                                      *)
(***************************************************************************)
SocketCfgs ==
    [is_udp_ : BOOLEAN, is_listening_ : BOOLEAN, needs_so_timestamp_ : BOOLEAN]

\* the calls of createSocket in the order of the code; the code calls listen
\* twice, "listen_tcp" is the position of the second call
SetupSteps ==
    << "getaddrinfo", "socket", "setNonBlocking", "disableNagle", "connect",
       "setsockopt", "listen", "listen_tcp", "setSOTimestamp", "return" >>

\* the condition under which the code makes the call
StepApplies(step) ==
    CASE step = "disableNagle" -> ~socket_cfg.is_udp_
      [] step = "connect" -> ~socket_cfg.is_listening_
      [] step = "setsockopt" -> socket_cfg.is_listening_
      [] step = "listen" -> socket_cfg.is_listening_
      [] step = "listen_tcp" -> ~socket_cfg.is_udp_ /\ socket_cfg.is_listening_
      [] step = "setSOTimestamp" -> socket_cfg.needs_so_timestamp_
      [] OTHER -> TRUE

StepIndex(step) == CHOOSE i \in DOMAIN SetupSteps : SetupSteps[i] = step

\* the next call the code makes after step
StepAfter(step) ==
    LET later == {j \in DOMAIN SetupSteps :
                     j > StepIndex(step) /\ StepApplies(SetupSteps[j])}
    IN  SetupSteps[CHOOSE j \in later : \A k \in later : j <= k]

\* a system call and its outcome
SysCall(call, ret, errno) == [call |-> call, ret |-> ret, errno |-> errno]

\* errno after a call that returned ret
ErrnoOf(ret) == IF ret = 0 THEN "none" ELSE "error"

\* a call that answers true or false, as the int the record keeps
AsInt(ok) == IF ok THEN 0 ELSE -1

\* ASSERT(cond, msg) on the outcome of the call made at step
SetupStep(step, call, cond) ==
    /\ ~setupExited /\ setup_pc = step
    /\ setup_calls' = Append(setup_calls, call)
    /\ IF cond THEN /\ setup_pc' = StepAfter(step)
                    /\ UNCHANGED setupExited
               ELSE /\ setupExited' = TRUE
                    /\ UNCHANGED setup_pc
    /\ UNCHANGED << socket_cfg, notSetup >>

\* rc = getaddrinfo(...): 0 or a non-zero error code; ASSERT(!rc)
SetupGetaddrinfo(rc) ==
    /\ SetupStep("getaddrinfo", SysCall("getaddrinfo", rc, ErrnoOf(rc)), rc = 0)
    /\ UNCHANGED socket_fd

\* ASSERT((socket_fd = socket(...)) != -1)
SetupSocket(fd) ==
    /\ SetupStep("socket",
                 SysCall("socket", fd, IF fd = -1 THEN "error" ELSE "none"),
                 fd # -1)
    /\ socket_fd' = fd

\* ASSERT(setNonBlocking(socket_fd))
SetupSetNonBlocking(ok) ==
    /\ SetupStep("setNonBlocking",
                 SysCall("setNonBlocking", AsInt(ok), ErrnoOf(AsInt(ok))), ok)
    /\ UNCHANGED socket_fd

\* if(!is_udp_) ASSERT(disableNagle(socket_fd))
SetupDisableNagle(ok) ==
    /\ SetupStep("disableNagle",
                 SysCall("disableNagle", AsInt(ok), ErrnoOf(AsInt(ok))), ok)
    /\ UNCHANGED socket_fd

\* connect on the non-blocking descriptor: connected at once, in progress,
\* or failed
ConnectOutcomes ==
    { SysCall("connect", 0, "none"),
      SysCall("connect", -1, "EINPROGRESS"),
      SysCall("connect", -1, "ECONNREFUSED") }

\* the condition of the ASSERT on connect
ConnectAccepted(ret) == ret # 1

\* if(!is_listening_) ASSERT(connect(socket_fd, ...) != 1)
SetupConnect(outcome) ==
    /\ SetupStep("connect", outcome, ConnectAccepted(outcome.ret))
    /\ UNCHANGED socket_fd

\* if(is_listening_) ASSERT(setsockopt(socket_fd, ..., SO_REUSEADDR, ...) == 0)
SetupReuseAddr(ret) ==
    /\ SetupStep("setsockopt", SysCall("setsockopt", ret, ErrnoOf(ret)), ret = 0)
    /\ UNCHANGED socket_fd

\* what listen(socket_fd, MaxTCPServerBacklog) may return: a datagram socket
\* does not support listen
ListenResults == IF socket_cfg.is_udp_ THEN {-1} ELSE {0, -1}

\* if(is_listening_){ addr is built and not used; ASSERT(listen(...) == 0) }
SetupListen(ret) ==
    /\ SetupStep("listen", SysCall("listen", ret, ErrnoOf(ret)), ret = 0)
    /\ UNCHANGED socket_fd

\* if(!is_udp_ && is_listening_) ASSERT(listen(...) == 0)
SetupListenTCP(ret) ==
    /\ SetupStep("listen_tcp", SysCall("listen", ret, ErrnoOf(ret)), ret = 0)
    /\ UNCHANGED socket_fd

\* if(needs_so_timestamp_) ASSERT(setSOTimestamp(socket_fd))
SetupTimestamp(ok) ==
    /\ SetupStep("setSOTimestamp",
                 SysCall("setSOTimestamp", AsInt(ok), ErrnoOf(AsInt(ok))), ok)
    /\ UNCHANGED socket_fd

\* return socket_fd
SetupReturn ==
    /\ ~setupExited /\ setup_pc = "return"
    /\ setup_pc' = "done"
    /\ UNCHANGED << socket_cfg, socket_fd, setup_calls, setupExited, notSetup >>

\* one call of createSocket, for every configuration
SetupInit ==
    /\ QueueInit /\ LoggerInit /\ PoolInitN(1) /\ FormatIdle /\ SocketInit
    /\ ServerInit /\ DirectInit
    /\ socket_cfg \in SocketCfgs
    /\ setup_pc = "getaddrinfo"
    /\ socket_fd = -1
    /\ setup_calls = << >>
    /\ setupExited = FALSE

SetupNext ==
    \/ \E rc \in {0, -1} : SetupGetaddrinfo(rc)
    \/ \E fd \in -1 .. MaxFd : SetupSocket(fd)
    \/ \E ok \in BOOLEAN : SetupSetNonBlocking(ok)
    \/ \E ok \in BOOLEAN : SetupDisableNagle(ok)
    \/ \E outcome \in ConnectOutcomes : SetupConnect(outcome)
    \/ \E ret \in {0, -1} : SetupReuseAddr(ret)
    \/ \E ret \in ListenResults : SetupListen(ret)
    \/ \E ret \in ListenResults : SetupListenTCP(ret)
    \/ \E ok \in BOOLEAN : SetupTimestamp(ok)
    \/ SetupReturn

SpecSetup == SetupInit /\ [][SetupNext]_vars

(***************************************************************************)
(* createSocket: properties.                                               *)
(***************************************************************************)
\* the positions in setup_calls of the calls of one system call
Calls(call) == {i \in DOMAIN setup_calls : setup_calls[i].call = call}

\* createSocket returned socket_fd to its caller
SetupReturned == setup_pc = "done" /\ ~setupExited

\* a connect of this call failed: -1 and not because it is still in progress
ConnectFailed ==
    \E i \in Calls("connect") :
        setup_calls[i].ret = -1 /\ setup_calls[i].errno # "EINPROGRESS"

\* C33: when createSocket returns, a listening configuration has bound the
\* descriptor and listened on it only after that, and has not connected; a
\* non-listening configuration has connected and has neither bound nor
\* listened.
C33_RoleSequence ==
    SetupReturned =>
        IF socket_cfg.is_listening_
        THEN /\ Calls("connect") = {}
             /\ Calls("bind") # {}
             /\ Calls("listen") # {}
             /\ \A i \in Calls("bind") : \A j \in Calls("listen") : i < j
        ELSE /\ Calls("connect") # {}
             /\ Calls("bind") = {}
             /\ Calls("listen") = {}

\* C34: a connect that failed has terminated the process, so createSocket
\* does not return the descriptor.
C34_ConnectFailureExits ==
    ConnectFailed => (setupExited /\ ~SetupReturned)

(***************************************************************************)
(* Ring buffer and pool: the relations between their indices.              *)
(***************************************************************************)
\* C39: between queue calls, as long as no call aborted and no write began
\* at a full buffer, the write index is the read index plus the count modulo
\* the capacity, and both indices are in 0 .. capacity - 1.
C39_IndexRelation ==
    (~exited /\ ~overrun) =>
        /\ next_write_index_ = (next_read_index_ + num_elements_) % QueueCap
        /\ next_write_index_ \in 0 .. (QueueCap - 1)
        /\ next_read_index_ \in 0 .. (QueueCap - 1)

\* the buffer is full, never overrun, and both indices have wrapped or moved
C39_Witness ==
    /\ ~exited /\ ~overrun
    /\ qLast.op = "write"
    /\ num_elements_ = QueueCap
    /\ next_read_index_ # 0
    /\ next_write_index_ = next_read_index_

\* C40: between pool calls, as long as no call aborted, next_free_index_ is a
\* slot of the pool and that slot is free; an allocate that aborts aborts on
\* "out of space", never on the ASSERT that its slot is free; deallocate
\* leaves next_free_index_ as it was.
C40_NextFreeInvariant ==
    /\ [](~poolExited =>
            /\ next_free_index_ \in PoolSlots
            /\ is_free_[next_free_index_])
    /\ []((poolLast.op = "allocate" /\ poolLast.aborted) =>
            poolLast.before[poolLast.idx])
    /\ [][poolLast'.op = "deallocate" =>
            next_free_index_' = next_free_index_]_vars

\* a slot other than the next free one was given back while another object
\* is live
C40_Witness ==
    /\ ~poolExited
    /\ poolLast.op = "deallocate" /\ ~poolLast.aborted
    /\ next_free_index_ # poolLast.idx
    /\ is_free_[next_free_index_]
    /\ LiveSlots # {}

====
